---- MODULE Spec2Model ----
(***************************************************************************)
(* Melody-comparison engine of brassbook-api                               *)
(* (src/brassbook-api/app/core/compare_melodies.py).                       *)
(*                                                                         *)
(* Numbers.  Every melody value, note value, loudness fraction and score   *)
(* of the program is a float with two decimals; the model keeps them as    *)
(* integers in hundredths (1.25 is 125), so floor(v) is v \div 100 and     *)
(* (v % 1) * 100 is v % 100.  Durations in seconds are hundredths too.     *)
(* Thresholds of 0.25 are compared by cross-multiplication, which is exact *)
(* where the float quotient is exact (the rhythm test, identical loudness  *)
(* means); round(x, 2) and round(x) are round-half-to-even on the exact    *)
(* quotient, which is what Python computes whenever the quotient is not a  *)
(* tie or is a dyadic tie (k/8), the only ties the bounds below produce.   *)
(*                                                                         *)
(* Exceptions.  A Python exception is the value of the field exc of what   *)
(* an operator returns ("none" when it returned normally).                 *)
(***************************************************************************)
EXTENDS Integers, Sequences, FiniteSets, TLC

VARIABLES
    pc,               \* position inside the running compare_melodies call
    file1, file2,     \* the two arguments of the call
    fault,            \* where an internal exception is raised in this call
    teacher_melody, children_melody,   \* frame-level melodies
    min_per_t, min_per_c,              \* minimum frames per note
    all_t, all_c, freq_t, freq_c, t_m, c_m,   \* note values, bins, durations
    counter,          \* extract_notes' run counter when it last returned
    time_c,           \* the duration argument compare was called with
    result,           \* what compare_melodies returned
    ran,              \* the stages entered so far in this call, in order
    prev,             \* an earlier call, remembered: its arguments and result
    call, ret         \* a direct call of one helper function and its return

vars == <<pc, file1, file2, fault, teacher_melody, children_melody,
          min_per_t, min_per_c, all_t, all_c, freq_t, freq_c, t_m, c_m,
          counter, time_c, result, ran, prev, call, ret>>

pipeVars == <<pc, file1, file2, fault, teacher_melody, children_melody,
              min_per_t, min_per_c, all_t, all_c, freq_t, freq_c, t_m, c_m,
              counter, time_c, result, ran>>

unitVars == <<call, ret>>

----------------------------------------------------------------------------
(* AudioConfig *)

TIME_FACTOR == 4

\* 0.25, in hundredths
LOUDNESS_THRESHOLD == 25

\* 0.25, in hundredths
RHYTHM_THRESHOLD == 25

\* bin written for an inserted gap, and its duration
GAP_BIN == 6

GAP_DURATION == 1

\* the duration compare_melodies passes to compare, 2 seconds, in hundredths
COMPARE_TIME == 200

----------------------------------------------------------------------------
(* Python built-ins *)

Min(a, b) == IF a <= b THEN a ELSE b

Max(a, b) == IF a >= b THEN a ELSE b

Abs(a) == IF a >= 0 THEN a ELSE -a

RECURSIVE Sum(_)
Sum(s) == IF s = <<>> THEN 0 ELSE Head(s) + Sum(Tail(s))

RECURSIVE MaxOf(_)
MaxOf(s) == IF Len(s) = 1 THEN s[1] ELSE Max(Head(s), MaxOf(Tail(s)))

\* [v] * n
Repeat(v, n) == [k \in 1..Max(n, 0) |-> v]

\* s[a:b] for 0 <= a, 0 <= b (0-based, end exclusive, clipped to the list)
Slice(s, a, b) ==
    LET lo == Min(a, Len(s))
        hi == Min(b, Len(s))
    IN  IF hi <= lo THEN <<>> ELSE [k \in 1..(hi - lo) |-> s[lo + k]]

\* list.insert(idx, v) for idx >= 0: past the end it appends
Insert(s, idx, v) ==
    LET at == Min(idx, Len(s))
    IN  Slice(s, 0, at) \o <<v>> \o Slice(s, at, Len(s))

\* round(num / den) for num >= 0, den > 0: to nearest, ties to even
RoundHalfEven(num, den) ==
    LET q == num \div den
        r == num % den
    IN  IF 2 * r < den THEN q
        ELSE IF 2 * r > den THEN q + 1
        ELSE IF q % 2 = 0 THEN q ELSE q + 1

\* an operator's normal return and its raise
Return(v) == [exc |-> "none", val |-> v]

Raise(e) == [exc |-> e, val |-> <<>>]

----------------------------------------------------------------------------
(* extract_notes *)

\* a threshold num/den; extract_melody_from_audio computes frames / (time * 4)
MinPer(frames, time) == [num |-> 100 * frames, den |-> time * TIME_FACTOR]

\* counter >= min_per
AtLeast(cnt, min_per) == cnt * min_per.den >= min_per.num

\* the counter extract_notes starts with (here the stale counter of the last call)
InitCounterStale == counter

InitCounter == 0

\* the loop body for Python index i (melody[i] is melody[i + 1] here)
ExtractBody(melody, min_per, i, st) ==
    LET here == melody[i + 1] \div 100
        next == melody[i + 2] \div 100
    IN  IF here = next
        THEN [st EXCEPT !.counter = @ + 1]
        ELSE IF AtLeast(st.counter, min_per)
        THEN [counter |-> 0,
              all_notes |-> Append(st.all_notes, here * 100 + st.counter),
              freq |-> Append(st.freq, here),
              lengths |-> Append(st.lengths, st.counter)]
        ELSE st

\* the iterations lo, lo + 1, ..., hi - 1 in this order, the first half of them
\* and then the second, so that long melodies nest only a few calls deep.  A
\* counter is never negative: reading it has the first half evaluated before
\* the second half is entered.
RECURSIVE ExtractRange(_, _, _, _, _)
ExtractRange(melody, min_per, lo, hi, st) ==
    IF hi <= lo THEN st
    ELSE IF hi = lo + 1 THEN ExtractBody(melody, min_per, lo, st)
    ELSE LET mid  == (lo + hi) \div 2
             half == ExtractRange(melody, min_per, lo, mid, st)
         IN  IF half.counter >= 0
             THEN ExtractRange(melody, min_per, mid, hi, half)
             ELSE half

\* for i in range(len(melody) - 1), from index i on
ExtractLoop(melody, min_per, i, st) ==
    ExtractRange(melody, min_per, i, Len(melody) - 1, st)

\* evaluates the final run too, after the loop
extract_notes_with_final_run(melody, min_per, failed) ==
    LET st0  == [counter |-> InitCounter, all_notes |-> <<>>, freq |-> <<>>,
                 lengths |-> <<>>]
        st   == ExtractLoop(melody, min_per, 0, st0)
        last == melody[Len(melody)] \div 100
    IN  IF failed
        THEN [st0 EXCEPT !.counter = 0]
        ELSE IF melody # <<>> /\ AtLeast(st.counter, min_per)
        THEN [counter |-> 0,
              all_notes |-> Append(st.all_notes, last * 100 + st.counter),
              freq |-> Append(st.freq, last),
              lengths |-> Append(st.lengths, st.counter)]
        ELSE st

\* failed: an exception inside the try block, which returns three empty lists
extract_notes(melody, min_per, failed) ==
    LET st0 == [counter |-> InitCounter, all_notes |-> <<>>, freq |-> <<>>,
                lengths |-> <<>>]
    IN  IF failed
        THEN [st0 EXCEPT !.counter = 0]
        ELSE ExtractLoop(melody, min_per, 0, st0)

\* at: "none", or where the exception is raised: "notes_t" and "notes_c" inside
\* extract_notes' own try block, "body" in synchronize_melodies' try block
synchronize_melodies(tmel, cmel, mpt, mpc, at) ==
    LET nt == extract_notes(tmel, mpt, at = "notes_t")
        nc == extract_notes(cmel, mpc, at = "notes_c")
    IN  IF at = "body"
        THEN [all_t |-> <<>>, all_c |-> <<>>, freq_t |-> <<>>, freq_c |-> <<>>,
              t_m |-> <<>>, c_m |-> <<>>, counter |-> 0]
        ELSE [all_t |-> nt.all_notes, all_c |-> nc.all_notes,
              freq_t |-> nt.freq, freq_c |-> nc.freq,
              t_m |-> nt.lengths, c_m |-> nc.lengths, counter |-> nc.counter]

----------------------------------------------------------------------------
(* compare_melody_sequences *)

\* pads list1 only
extend_first_only(list1, list2, fill_value) ==
    LET max_length == Max(Len(list1), Len(list2))
    IN  <<list1 \o Repeat(fill_value, max_length - Len(list1)), list2>>

\* pads on the left
extend_on_the_left(list1, list2, fill_value) ==
    LET max_length == Max(Len(list1), Len(list2))
    IN  <<Repeat(fill_value, max_length - Len(list1)) \o list1,
          Repeat(fill_value, max_length - Len(list2)) \o list2>>

extend_to_max_length(list1, list2, fill_value) ==
    LET max_length == Max(Len(list1), Len(list2))
    IN  <<list1 \o Repeat(fill_value, max_length - Len(list1)),
          list2 \o Repeat(fill_value, max_length - Len(list2))>>

\* the gap scan from Python index i on; a recorded gap is i + value % 1
RECURSIVE GapScan(_, _, _, _)
GapScan(at, ac, i, ex) ==
    IF i >= Min(Len(at), Len(ac)) - 3 THEN ex
    ELSE IF ac[i + 1] # at[i + 1] /\ Slice(ac, i + 1, i + 3) = Slice(at, i, i + 2)
    THEN GapScan(at, ac, i + 1,
                 [ex EXCEPT !.exec_c = Append(@, i * 100 + (ac[i + 1] % 100))])
    ELSE IF ac[i + 1] # at[i + 1] /\ Slice(ac, i, i + 2) = Slice(at, i + 1, i + 3)
    THEN GapScan(at, ac, i + 1,
                 [ex EXCEPT !.exec_t = Append(@, i * 100 + (at[i + 1] % 100))])
    ELSE GapScan(at, ac, i + 1, ex)

\* scans sequences of equal length too
FindGapsAnyLength(at, ac) ==
    GapScan(at, ac, 0, [exec_t |-> <<>>, exec_c |-> <<>>])

FindGaps(at, ac) ==
    IF Len(at) # Len(ac)
    THEN GapScan(at, ac, 0, [exec_t |-> <<>>, exec_c |-> <<>>])
    ELSE [exec_t |-> <<>>, exec_c |-> <<>>]

\* for idx in gaps: s.insert(floor(idx), v)
RECURSIVE InsertAll(_, _, _)
InsertAll(s, gaps, v) ==
    IF gaps = <<>> THEN s
    ELSE InsertAll(Insert(s, Head(gaps) \div 100, v), Tail(gaps), v)

\* at: "none", or where the exception is raised inside the try block: "scan"
\* in the gap scan, "insert" between the two insertion loops, "pad" in the
\* second extend_to_max_length.  The lists are changed in place, so what was
\* done before the exception is in what the except branch returns.
compare_melody_sequences(at_, ac_, ft, fc, tm, cm, tmel, cmel, at) ==
    LET ex   == FindGaps(at_, ac_)
        tm1  == InsertAll(tm, ex.exec_c, GAP_DURATION)
        ft1  == InsertAll(ft, ex.exec_c, GAP_BIN)
        cm1  == InsertAll(cm, ex.exec_t, GAP_DURATION)
        fc1  == InsertAll(fc, ex.exec_t, GAP_BIN)
        mel  == extend_to_max_length(tmel, cmel, 0)
        fr   == extend_to_max_length(ft1, fc1, 0)
        du   == extend_to_max_length(tm1, cm1, 1)
    IN  CASE at = "scan" ->
               [teacher_melody |-> tmel, children_melody |-> cmel,
                freq_t |-> ft, freq_c |-> fc, t_m |-> tm, c_m |-> cm]
          [] at = "insert" ->
               [teacher_melody |-> tmel, children_melody |-> cmel,
                freq_t |-> ft1, freq_c |-> fc, t_m |-> tm1, c_m |-> cm]
          [] at = "pad" ->
               [teacher_melody |-> mel[1], children_melody |-> mel[2],
                freq_t |-> ft1, freq_c |-> fc1, t_m |-> tm1, c_m |-> cm1]
          [] OTHER ->
               [teacher_melody |-> mel[1], children_melody |-> mel[2],
                freq_t |-> fr[1], freq_c |-> fr[2], t_m |-> du[1], c_m |-> du[2]]

----------------------------------------------------------------------------
(* the metric functions *)

\* keeps the integer part and drops the fraction
normalize_to_bin(melody) == [k \in 1..Len(melody) |-> melody[k] \div 100]

\* round((y % 1) * 100), y a non-negative value of two decimals
normalize_melody(melody) == [k \in 1..Len(melody) |-> melody[k] % 100]

\* the tolerance test with < for <=
LoudnessWithinStrict(c_sum, c, t_sum, t) ==
    100 * Abs(c * t_sum - c_sum * t) < LOUDNESS_THRESHOLD * Abs(c * t_sum)

\* abs(1 - (c_sum / c) / (t_sum / t)) <= LOUDNESS_THRESHOLD, for c, t_sum nonzero
LoudnessWithin(c_sum, c, t_sum, t) ==
    100 * Abs(c * t_sum - c_sum * t) <= LOUDNESS_THRESHOLD * Abs(c * t_sum)

\* the loop body for note i (1-based), cursors counter_t and counter_c
RECURSIVE LoudnessLoop(_, _, _, _, _, _, _, _)
LoudnessLoop(tm, cm, tmel, cmel, i, counter_t, counter_c, res_loud) ==
    IF i > Len(tm) THEN Return(res_loud)
    ELSE IF i > Len(cm) THEN Raise("IndexError")
    ELSE LET t_sum == Sum(Slice(tmel, counter_t, counter_t + tm[i]))
             c_sum == Sum(Slice(cmel, counter_c, counter_c + cm[i]))
         IN  IF t_sum # 0 /\ cm[i] = 0 THEN Raise("ZeroDivisionError")
             ELSE LoudnessLoop(tm, cm, tmel, cmel, i + 1,
                      counter_t + tm[i], counter_c + cm[i],
                      res_loud \o
                        (IF t_sum # 0 /\ LoudnessWithin(c_sum, cm[i], t_sum, tm[i])
                         THEN Repeat(0, cm[i])
                         ELSE Repeat(1, cm[i])))

\* as many flags for a note as it has reference frames
loudness_per_reference_frame(tm, cm, tmel, cmel) ==
    LoudnessLoop(tm, tm, tmel, cmel, 1, 0, 0, <<>>)

calculate_loudness(tm, cm, tmel, cmel) ==
    LoudnessLoop(tm, cm, tmel, cmel, 1, 0, 0, <<>>)

\* the tolerance test with < for <=
RhythmWithinStrict(t, c) == 100 * Abs(t - c) < RHYTHM_THRESHOLD * Abs(t)

\* abs((t - c) / t) <= RHYTHM_THRESHOLD, for t nonzero
RhythmWithin(t, c) == 100 * Abs(t - c) <= RHYTHM_THRESHOLD * Abs(t)

RECURSIVE RhythmLoop(_, _, _, _)
RhythmLoop(tm, cm, i, res_rhythm) ==
    IF i > Len(tm) THEN Return(res_rhythm)
    ELSE IF i > Len(cm) THEN Raise("IndexError")
    ELSE IF tm[i] = 0 THEN Raise("ZeroDivisionError")
    ELSE RhythmLoop(tm, cm, i + 1,
             res_rhythm \o
               (IF RhythmWithin(tm[i], cm[i])
                THEN Repeat(0, cm[i])
                ELSE Repeat(0, Min(tm[i], cm[i])) \o Repeat(1, Abs(cm[i] - tm[i]))))

calculate_rhythm(tm, cm) == RhythmLoop(tm, cm, 1, <<>>)

RECURSIVE FrequencyLoop(_, _, _, _, _)
FrequencyLoop(ft, fc, cm, i, res_frequency) ==
    IF i > Len(ft) THEN Return(res_frequency)
    ELSE IF i > Len(fc) \/ i > Len(cm) THEN Raise("IndexError")
    ELSE FrequencyLoop(ft, fc, cm, i + 1,
             res_frequency \o
               (IF ft[i] = fc[i] THEN Repeat(0, cm[i]) ELSE Repeat(1, cm[i])))

\* one flag for a note, whatever its duration
frequency_flag_per_note(ft, fc, cm) ==
    Return([i \in 1..Len(ft) |-> IF ft[i] = fc[i] THEN 0 ELSE 1])

calculate_frequency(ft, fc, cm) == FrequencyLoop(ft, fc, cm, 1, <<>>)

\* divides by 100, the full scale, not by the list's own maximum
volume_of_full_scale(cmel) == [k \in 1..Len(cmel) |-> cmel[k]]

\* the fractions are in hundredths; with maximum 0 the values pass through.
\* round(m / max_c, 2) rounds the float quotient: a quotient exactly half way
\* (1 / 8 = 0.125) goes to the even hundredth, and the values drawn below
\* have no quotient half way that the float does not hold exactly.
calculate_average_volume(cmel) ==
    LET max_c == IF cmel # <<>> THEN MaxOf(cmel) ELSE 1
    IN  [k \in 1..Len(cmel) |->
            IF max_c # 0 THEN RoundHalfEven(100 * cmel[k], max_c)
            ELSE 100 * cmel[k]]

\* divides without testing for the empty list
integral_indicator_unguarded(total_errors) ==
    IF total_errors = <<>> THEN Raise("ZeroDivisionError")
    ELSE Return(100 - RoundHalfEven(100 * Sum(total_errors), Len(total_errors)))

\* the indicator in hundredths
calculate_integral_indicator(total_errors) ==
    IF total_errors # <<>>
    THEN Return(100 - RoundHalfEven(100 * Sum(total_errors), Len(total_errors)))
    ELSE Return(100)

----------------------------------------------------------------------------
(* process_characteristics *)

\* round(time * TIME_FACTOR), time in hundredths of a second; a negative
\* product rounds as its opposite does
BucketFrameCount(time) ==
    IF time >= 0
    THEN RoundHalfEven(time * TIME_FACTOR, 100)
    ELSE 0 - RoundHalfEven((0 - time) * TIME_FACTOR, 100)

\* a chunk with exactly half ones votes 1
VoteAtLeastHalf(chunk) == IF 2 * Sum(chunk) >= Len(chunk) THEN 1 ELSE 0

\* 1 if sum(chunk) / len(chunk) > 0.5 else 0
Vote(chunk) == IF 2 * Sum(chunk) > Len(chunk) THEN 1 ELSE 0

RECURSIVE BucketLoop(_, _, _)
BucketLoop(x, count_of_values, y) ==
    IF Len(x) >= count_of_values
    THEN BucketLoop(Slice(x, count_of_values, Len(x)), count_of_values,
                    Append(y, Vote(Slice(x, 0, count_of_values))))
    ELSE IF x # <<>> THEN Append(y, Vote(x))
    ELSE y

\* the result for count_of_values >= 0; with a negative count the loop is
\* never left, and the function is modelled by its steps (SpecBucketRun)
process_characteristics(x, time) ==
    LET count_of_values == BucketFrameCount(time)
    IN  IF count_of_values = 0 THEN <<>>
        ELSE BucketLoop(x, count_of_values, <<>>)

\* x[:n] and x[n:], n of either sign
SliceTo(x, n) ==
    IF n >= 0 THEN Slice(x, 0, n) ELSE Slice(x, 0, Max(Len(x) + n, 0))

SliceFrom(x, n) ==
    IF n >= 0 THEN Slice(x, n, Len(x)) ELSE Slice(x, Max(Len(x) + n, 0), Len(x))

\* 1 if sum(chunk) / n > 0.5 else 0, n nonzero of either sign
VoteOver(chunk, n) ==
    IF n > 0
    THEN IF 2 * Sum(chunk) > n THEN 1 ELSE 0
    ELSE IF 2 * Sum(chunk) < n THEN 1 ELSE 0

----------------------------------------------------------------------------
(* compare *)

Tuple(ii, rhythm, height, volume1, res_average) ==
    [kind |-> "tuple", ii |-> ii, rhythm |-> rhythm, height |-> height,
     volume |-> volume1, average |-> res_average]

\* what compare's except branch returns: 0.0 and four empty lists
FailedComparison == Tuple(0, <<>>, <<>>, <<>>, <<>>)

\* the failure sentinel of compare_melodies
None == [kind |-> "None", ii |-> 0, rhythm |-> <<>>, height |-> <<>>,
         volume |-> <<>>, average |-> <<>>]

\* compare with the loudness flags among the indicator's bits
compare_with_loudness(tm, cm, ft, fc, tmel, cmel, time, failed) ==
    LET tn            == normalize_melody(tmel)
        cn            == normalize_melody(cmel)
        res_loud      == calculate_loudness(tm, cm, tn, cn)
        res_rhythm    == calculate_rhythm(tm, cm)
        res_frequency == calculate_frequency(ft, fc, cm)
        res_average   == calculate_average_volume(cn)
        total_errors  == res_rhythm.val \o res_frequency.val \o res_loud.val
        indicator     == calculate_integral_indicator(total_errors)
    IN  IF \/ failed
           \/ res_loud.exc # "none"
           \/ res_rhythm.exc # "none"
           \/ res_frequency.exc # "none"
           \/ indicator.exc # "none"
        THEN FailedComparison
        ELSE Tuple(indicator.val,
                   process_characteristics(res_rhythm.val, time),
                   process_characteristics(res_frequency.val, time),
                   process_characteristics(res_loud.val, time),
                   res_average)

\* failed: an exception raised inside the try block by something other than
\* the list arithmetic modelled here
compare(tm, cm, ft, fc, tmel, cmel, time, failed) ==
    LET tn            == normalize_melody(tmel)
        cn            == normalize_melody(cmel)
        res_loud      == calculate_loudness(tm, cm, tn, cn)
        res_rhythm    == calculate_rhythm(tm, cm)
        res_frequency == calculate_frequency(ft, fc, cm)
        res_average   == calculate_average_volume(cn)
        total_errors  == res_rhythm.val \o res_frequency.val
        indicator     == calculate_integral_indicator(total_errors)
    IN  IF \/ failed
           \/ res_loud.exc # "none"
           \/ res_rhythm.exc # "none"
           \/ res_frequency.exc # "none"
           \/ indicator.exc # "none"
        THEN FailedComparison
        ELSE Tuple(indicator.val,
                   process_characteristics(res_rhythm.val, time),
                   process_characteristics(res_frequency.val, time),
                   process_characteristics(res_loud.val, time),
                   res_average)

----------------------------------------------------------------------------
(* extract_melody_from_audio *)

\* A file argument: None ("not_bytes"), b"" ("empty"), bytes that do not
\* decode ("undecodable"), or audio, given by what decoding and the spectral
\* analysis make of it: the frame values and the trimmed duration.
NotBytes == [kind |-> "not_bytes", melody |-> <<>>, time |-> 0]

EmptyBytes == [kind |-> "empty", melody |-> <<>>, time |-> 0]

Undecodable == [kind |-> "undecodable", melody |-> <<>>, time |-> 0]

Audio(melody, time) == [kind |-> "audio", melody |-> melody, time |-> time]

NoMinPer == [num |-> 0, den |-> 1]

\* at: "none", or where the exception is raised: "prologue" before the try
\* block (it leaves the function), "body" inside it (it returns (None, None)).
extract_melody_from_audio(file_bytes, at) ==
    IF at = "prologue"
    THEN [exc |-> "Exception", isNone |-> TRUE, melody |-> <<>>, min_per |-> NoMinPer]
    ELSE IF at = "body" \/ file_bytes.kind # "audio"
    THEN [exc |-> "none", isNone |-> TRUE, melody |-> <<>>, min_per |-> NoMinPer]
    ELSE [exc |-> "none", isNone |-> FALSE, melody |-> file_bytes.melody,
          min_per |-> MinPer(Len(file_bytes.melody), file_bytes.time)]

----------------------------------------------------------------------------
(* compare_melodies *)

\* the checks at the head of the try block, with "and" for "or"
InputErrorBoth(f1, f2) ==
    IF f1.kind = "not_bytes" /\ f2.kind = "not_bytes" THEN "TypeError"
    ELSE IF f1.kind = "empty" /\ f2.kind = "empty" THEN "ValueError"
    ELSE "none"

\* the checks at the head of the try block
InputError(f1, f2) ==
    IF f1.kind = "not_bytes" \/ f2.kind = "not_bytes" THEN "TypeError"
    ELSE IF f1.kind \notin {"audio", "undecodable"}
            \/ f2.kind \notin {"audio", "undecodable"} THEN "ValueError"
    ELSE "none"

\* only the three named except clauses
CaughtNamedOnly(exc) == exc \in {"TypeError", "ValueError", "LibrosaError"}

\* the except clauses; "Exception" is any other subclass of Exception
Caught(exc) == exc \in {"TypeError", "ValueError", "LibrosaError", "Exception"}

Pending == [kind |-> "pending", ii |-> 0, rhythm |-> <<>>, height |-> <<>>,
            volume |-> <<>>, average |-> <<>>]

NoFault == [stage |-> "none", at |-> "none"]

Faults ==
    {NoFault}
    \cup {[stage |-> s, at |-> a] : s \in {"extract_t", "extract_c"},
                                  a \in {"prologue", "body"}}
    \cup {[stage |-> "sync", at |-> a] : a \in {"prologue", "notes_t", "notes_c", "body"}}
    \cup {[stage |-> "align", at |-> a] : a \in {"prologue", "scan", "insert", "pad"}}
    \cup {[stage |-> "compare", at |-> a] : a \in {"prologue", "body"}}

FaultAt(stage) == IF fault.stage = stage THEN fault.at ELSE "none"

NoCall == [fn |-> "none"]

NoRet == Return(<<>>)

\* the locals of a call before anything is assigned
FreshLocals ==
    /\ teacher_melody' = <<>>
    /\ children_melody' = <<>>
    /\ min_per_t' = NoMinPer
    /\ min_per_c' = NoMinPer
    /\ all_t' = <<>>
    /\ all_c' = <<>>
    /\ freq_t' = <<>>
    /\ freq_c' = <<>>
    /\ t_m' = <<>>
    /\ c_m' = <<>>
    /\ time_c' = 0

\* an exception reaches the except clauses of compare_melodies
Handle(exc) ==
    IF Caught(exc)
    THEN pc' = "done" /\ result' = None
    ELSE pc' = "raised" /\ result' = Pending

\* the call and the argument checks
Enter(files, faults) ==
    /\ pc = "idle"
    /\ \E f1 \in files, f2 \in files, f \in faults :
         /\ file1' = f1
         /\ file2' = f2
         /\ fault' = f
         /\ IF InputError(f1, f2) # "none"
            THEN Handle(InputError(f1, f2))
            ELSE pc' = "extract_t" /\ result' = Pending
    /\ FreshLocals
    /\ ran' = <<>>
    /\ UNCHANGED <<counter, prev, call, ret>>

\* goes on to the candidate without testing the melody for None
ExtractTeacherUnchecked ==
    /\ pc = "extract_t"
    /\ LET r == extract_melody_from_audio(file1, FaultAt("extract_t"))
       IN  /\ IF r.exc # "none" THEN Handle(r.exc)
              ELSE pc' = "extract_c" /\ result' = result
           /\ teacher_melody' = r.melody
           /\ min_per_t' = r.min_per
    /\ ran' = Append(ran, "extract_t")
    /\ UNCHANGED <<file1, file2, fault, children_melody, min_per_c, all_t, all_c,
                   freq_t, freq_c, t_m, c_m, counter, time_c, prev, call, ret>>

ExtractTeacher ==
    /\ pc = "extract_t"
    /\ LET r == extract_melody_from_audio(file1, FaultAt("extract_t"))
       IN  /\ IF r.exc # "none" THEN Handle(r.exc)
              ELSE IF r.isNone THEN Handle("ValueError")
              ELSE pc' = "extract_c" /\ result' = result
           /\ teacher_melody' = r.melody
           /\ min_per_t' = r.min_per
    /\ ran' = Append(ran, "extract_t")
    /\ UNCHANGED <<file1, file2, fault, children_melody, min_per_c, all_t, all_c,
                   freq_t, freq_c, t_m, c_m, counter, time_c, prev, call, ret>>

ExtractChildren ==
    /\ pc = "extract_c"
    /\ LET r == extract_melody_from_audio(file2, FaultAt("extract_c"))
       IN  /\ IF r.exc # "none" THEN Handle(r.exc)
              ELSE IF r.isNone THEN Handle("ValueError")
              ELSE pc' = "sync" /\ result' = result
           /\ children_melody' = r.melody
           /\ min_per_c' = r.min_per
    /\ ran' = Append(ran, "extract_c")
    /\ UNCHANGED <<file1, file2, fault, teacher_melody, min_per_t, all_t, all_c,
                   freq_t, freq_c, t_m, c_m, counter, time_c, prev, call, ret>>

Synchronize ==
    /\ pc = "sync"
    /\ ran' = Append(ran, "sync")
    /\ IF FaultAt("sync") = "prologue"
       THEN /\ Handle("Exception")
            /\ UNCHANGED <<all_t, all_c, freq_t, freq_c, t_m, c_m, counter>>
       ELSE LET r == synchronize_melodies(teacher_melody, children_melody,
                                          min_per_t, min_per_c, FaultAt("sync"))
            IN  /\ all_t' = r.all_t
                /\ all_c' = r.all_c
                /\ freq_t' = r.freq_t
                /\ freq_c' = r.freq_c
                /\ t_m' = r.t_m
                /\ c_m' = r.c_m
                /\ counter' = r.counter
                /\ pc' = "align"
                /\ result' = result
    /\ UNCHANGED <<file1, file2, fault, teacher_melody, children_melody,
                   min_per_t, min_per_c, time_c, prev, call, ret>>

Align ==
    /\ pc = "align"
    /\ ran' = Append(ran, "align")
    /\ IF FaultAt("align") = "prologue"
       THEN /\ Handle("Exception")
            /\ UNCHANGED <<teacher_melody, children_melody, freq_t, freq_c, t_m, c_m>>
       ELSE LET r == compare_melody_sequences(all_t, all_c, freq_t, freq_c, t_m, c_m,
                         teacher_melody, children_melody, FaultAt("align"))
            IN  /\ teacher_melody' = r.teacher_melody
                /\ children_melody' = r.children_melody
                /\ freq_t' = r.freq_t
                /\ freq_c' = r.freq_c
                /\ t_m' = r.t_m
                /\ c_m' = r.c_m
                /\ pc' = "compare"
                /\ result' = result
    /\ UNCHANGED <<file1, file2, fault, min_per_t, min_per_c, all_t, all_c,
                   counter, time_c, prev, call, ret>>

Compare ==
    /\ pc = "compare"
    /\ ran' = Append(ran, "compare")
    /\ time_c' = COMPARE_TIME
    /\ IF FaultAt("compare") = "prologue"
       THEN Handle("Exception")
       ELSE /\ result' = compare(t_m, c_m, freq_t, freq_c, teacher_melody,
                                 children_melody, COMPARE_TIME,
                                 FaultAt("compare") = "body")
            /\ pc' = "done"
    /\ UNCHANGED <<file1, file2, fault, teacher_melody, children_melody,
                   min_per_t, min_per_c, all_t, all_c, freq_t, freq_c, t_m, c_m,
                   counter, prev, call, ret>>

\* the call has returned; its frame is gone
Finish ==
    /\ pc = "done"
    /\ pc' = "idle"
    /\ file1' = NotBytes
    /\ file2' = NotBytes
    /\ fault' = NoFault
    /\ FreshLocals
    /\ result' = Pending
    /\ ran' = <<>>
    /\ prev' = IF prev.fn = "none" THEN prev ELSE [prev EXCEPT !.between = TRUE]
    /\ UNCHANGED <<counter, call, ret>>

\* bookkeeping: the finished call is remembered, for comparison with later ones
Remember ==
    /\ pc = "done"
    /\ prev' = [fn |-> "compare_melodies", file1 |-> file1, file2 |-> file2,
                fault |-> fault, result |-> result, between |-> FALSE]
    /\ UNCHANGED <<pipeVars, call, ret>>

----------------------------------------------------------------------------
(* Spec: calls of compare_melodies, one after another *)

MaxFrames == 3

\* silence, and bin 1 at loudness 0.30
FrameVals == {0, 130}

Times == {50, 200}

Melodies == UNION {[1..n -> FrameVals] : n \in 1..MaxFrames}

Files == {NotBytes, EmptyBytes, Undecodable}
         \cup {Audio(m, t) : m \in Melodies, t \in Times}

Idle ==
    /\ pc = "idle"
    /\ file1 = NotBytes
    /\ file2 = NotBytes
    /\ fault = NoFault
    /\ teacher_melody = <<>>
    /\ children_melody = <<>>
    /\ min_per_t = NoMinPer
    /\ min_per_c = NoMinPer
    /\ all_t = <<>>
    /\ all_c = <<>>
    /\ freq_t = <<>>
    /\ freq_c = <<>>
    /\ t_m = <<>>
    /\ c_m = <<>>
    /\ counter = 0
    /\ time_c = 0
    /\ result = Pending
    /\ ran = <<>>

Init ==
    /\ Idle
    /\ prev = NoCall
    /\ call = NoCall
    /\ ret = NoRet

Next ==
    \/ Enter(Files, Faults)
    \/ ExtractTeacher
    \/ ExtractChildren
    \/ Synchronize
    \/ Align
    \/ Compare
    \/ Finish

Spec == Init /\ [][Next]_vars

----------------------------------------------------------------------------
(* SpecRepeat: the same calls, with one earlier call remembered *)

RepeatFiles ==
    {NotBytes} \cup {Audio(m, 200) : m \in {x \in [1..MaxFrames -> FrameVals] :
                                              x[1] # x[MaxFrames]}}

RepeatFaults == {NoFault, [stage |-> "sync", at |-> "notes_t"],
                 [stage |-> "compare", at |-> "body"]}

NextRepeat ==
    \/ Enter(RepeatFiles, RepeatFaults)
    \/ ExtractTeacher
    \/ ExtractChildren
    \/ Synchronize
    \/ Align
    \/ Compare
    \/ Remember
    \/ Finish

SpecRepeat == Init /\ [][NextRepeat]_vars

----------------------------------------------------------------------------
(* Direct calls of the stages and helpers, on arguments drawn from bounded  *)
(* sets: the arrays are those of aligned notes, durations at least 1.       *)

MaxNotes == 2

MaxEvents == 5

MaxBits == 8

\* durations of a note, in frames
Durations == {1, 4, 5}

\* loudness of a frame, in hundredths
LoudVals == {0, 30, 40}

\* no file: the function is called directly
Direct == [kind |-> "direct", melody |-> <<>>, time |-> 0]

PendingRet == [exc |-> "pending", val |-> <<>>]

SeqsUpTo(S, n) == UNION {[1..k -> S] : k \in 0..n}

RECURSIVE Flatten(_)
Flatten(ss) == IF ss = <<>> THEN <<>> ELSE Head(ss) \o Flatten(Tail(ss))

Field(notes, f) == [k \in 1..Len(notes) |-> notes[k][f]]

\* the frames of notes: note k is dur frames of the bin at loudness loud
Frames(notes, dur, bin, loud) ==
    Flatten([k \in 1..Len(notes) |->
                Repeat(notes[k][bin] * 100 + notes[k][loud], notes[k][dur])])

\* the pipeline variables of a direct call of a stage
Stage(at, f, tmel, cmel, at_, ac_, ft, fc, tm, cm) ==
    /\ pc = at
    /\ file1 = Direct
    /\ file2 = Direct
    /\ fault = f
    /\ teacher_melody = tmel
    /\ children_melody = cmel
    /\ min_per_t = NoMinPer
    /\ min_per_c = NoMinPer
    /\ all_t = at_
    /\ all_c = ac_
    /\ freq_t = ft
    /\ freq_c = fc
    /\ t_m = tm
    /\ c_m = cm
    /\ counter = 0
    /\ time_c = 0
    /\ result = Pending
    /\ ran = <<>>
    /\ prev = NoCall
    /\ call = NoCall
    /\ ret = NoRet

(* SpecLoudness: calculate_loudness *)

LoudNotes == [t : {1, 3}, c : {1, 3}, lt : LoudVals, lc : LoudVals]

InitLoudness ==
    /\ Idle
    /\ prev = NoCall
    /\ \E notes \in SeqsUpTo(LoudNotes, MaxNotes) :
         call = [fn |-> "calculate_loudness",
                 t_m |-> Field(notes, "t"),
                 c_m |-> Field(notes, "c"),
                 teacher_melody |-> Flatten([k \in 1..Len(notes) |->
                                       Repeat(notes[k].lt, notes[k].t)]),
                 children_melody |-> Flatten([k \in 1..Len(notes) |->
                                       Repeat(notes[k].lc, notes[k].c)])]
    /\ ret = PendingRet

CallLoudness ==
    /\ call.fn = "calculate_loudness"
    /\ ret = PendingRet
    /\ ret' = calculate_loudness(call.t_m, call.c_m, call.teacher_melody,
                                 call.children_melody)
    /\ UNCHANGED <<pipeVars, prev, call>>

SpecLoudness == InitLoudness /\ [][CallLoudness]_vars

(* SpecCompare: compare, as compare_melodies calls it *)

CompareNotes == [t : Durations, c : Durations, ft : {1}, fc : {1, 2},
                 lt : {30}, lc : {30, 40}]

InitCompare ==
    \E notes \in SeqsUpTo(CompareNotes, MaxNotes),
       f \in {NoFault, [stage |-> "compare", at |-> "body"]} :
        Stage("compare", f,
              Frames(notes, "t", "ft", "lt"), Frames(notes, "c", "fc", "lc"),
              <<>>, <<>>,
              Field(notes, "ft"), Field(notes, "fc"),
              Field(notes, "t"), Field(notes, "c"))

SpecCompare == InitCompare /\ [][Compare]_vars

(* SpecIndicator: calculate_integral_indicator, called directly and by compare *)

InitIndicator ==
    /\ Idle
    /\ prev = NoCall
    /\ \E bits \in SeqsUpTo({0, 1}, MaxBits) :
         call = [fn |-> "calculate_integral_indicator", total_errors |-> bits]
    /\ ret = PendingRet

CallIndicator ==
    /\ call.fn = "calculate_integral_indicator"
    /\ ret = PendingRet
    /\ ret' = calculate_integral_indicator(call.total_errors)
    /\ UNCHANGED <<pipeVars, prev, call>>

SpecIndicator ==
    (InitIndicator \/ InitCompare) /\ [][CallIndicator \/ Compare]_vars

(* SpecAlign: compare_melody_sequences, on two lists of note events *)

\* a note event is bin * 100 + duration
EventVals == {101, 202}

AlignFaults == {NoFault} \cup {[stage |-> "align", at |-> a] :
                                 a \in {"prologue", "scan", "insert", "pad"}}

Bins(events) == [k \in 1..Len(events) |-> events[k] \div 100]

Lengths(events) == [k \in 1..Len(events) |-> events[k] % 100]

InitAlign ==
    \E et \in SeqsUpTo(EventVals, MaxEvents), ec \in SeqsUpTo(EventVals, MaxEvents),
       tmel \in {<<>>, <<130>>}, cmel \in {<<>>, <<130, 0>>}, f \in AlignFaults :
        Stage("align", f, tmel, cmel, et, ec,
              Bins(et), Bins(ec), Lengths(et), Lengths(ec))

SpecAlign == InitAlign /\ [][Align]_vars

(* SpecRhythm: calculate_rhythm, on the durations of aligned notes *)

\* with 4 against 3 and 4 against 5 exactly on the 25% tolerance
RhythmDurations == {1, 3, 4, 5}

InitRhythm ==
    /\ Idle
    /\ prev = NoCall
    /\ \E notes \in SeqsUpTo([t : RhythmDurations, c : RhythmDurations], MaxNotes) :
         call = [fn |-> "calculate_rhythm",
                 t_m |-> Field(notes, "t"), c_m |-> Field(notes, "c")]
    /\ ret = PendingRet

CallRhythm ==
    /\ call.fn = "calculate_rhythm"
    /\ ret = PendingRet
    /\ ret' = calculate_rhythm(call.t_m, call.c_m)
    /\ UNCHANGED <<pipeVars, prev, call>>

SpecRhythm == InitRhythm /\ [][CallRhythm]_vars

(* SpecFrequency: calculate_frequency, on the bins of aligned notes *)

FrequencyNotes == [ft : {1, 2}, fc : {1, 2}, c : {1, 2, 3}]

InitFrequency ==
    /\ Idle
    /\ prev = NoCall
    /\ \E notes \in SeqsUpTo(FrequencyNotes, MaxNotes) :
         call = [fn |-> "calculate_frequency",
                 freq_t |-> Field(notes, "ft"), freq_c |-> Field(notes, "fc"),
                 c_m |-> Field(notes, "c")]
    /\ ret = PendingRet

CallFrequency ==
    /\ call.fn = "calculate_frequency"
    /\ ret = PendingRet
    /\ ret' = calculate_frequency(call.freq_t, call.freq_c, call.c_m)
    /\ UNCHANGED <<pipeVars, prev, call>>

SpecFrequency == InitFrequency /\ [][CallFrequency]_vars

(* SpecBuckets: process_characteristics, on 0/1 flags and a duration *)

\* durations in hundredths of a second: 0, 1, 2, 3 and 4 frames to a bucket
BucketTimes == {0, 25, 50, 75, 100}

InitBuckets ==
    /\ Idle
    /\ prev = NoCall
    /\ \E x \in SeqsUpTo({0, 1}, MaxBits), time \in BucketTimes :
         call = [fn |-> "process_characteristics", x |-> x, time |-> time]
    /\ ret = PendingRet

CallBuckets ==
    /\ call.fn = "process_characteristics"
    /\ ret = PendingRet
    /\ ret' = Return(process_characteristics(call.x, call.time))
    /\ UNCHANGED <<pipeVars, prev, call>>

SpecBuckets == InitBuckets /\ [][CallBuckets]_vars

(* SpecExtend: extend_to_max_length, called directly and by the aligner *)

ExtendVals == {1, 2}

InitExtend ==
    /\ Idle
    /\ prev = NoCall
    /\ \E a \in SeqsUpTo(ExtendVals, MaxEvents), b \in SeqsUpTo(ExtendVals, MaxEvents),
          fill \in {0, 1} :
         call = [fn |-> "extend_to_max_length",
                 list1 |-> a, list2 |-> b, fill_value |-> fill]
    /\ ret = PendingRet

CallExtend ==
    /\ call.fn = "extend_to_max_length"
    /\ ret = PendingRet
    /\ ret' = Return(extend_to_max_length(call.list1, call.list2, call.fill_value))
    /\ UNCHANGED <<pipeVars, prev, call>>

SpecExtend ==
    (InitExtend \/ (InitAlign /\ fault = NoFault)) /\ [][CallExtend \/ Align]_vars

(* SpecVolume: calculate_average_volume, on normalized loudness values *)

\* 1 of 8 is half way between two hundredths
VolumeVals == {0, 1, 8, 25, 50, 100}

InitVolume ==
    /\ Idle
    /\ prev = NoCall
    /\ \E m \in SeqsUpTo(VolumeVals, MaxFrames) :
         call = [fn |-> "calculate_average_volume", children_melody |-> m]
    /\ ret = PendingRet

CallVolume ==
    /\ call.fn = "calculate_average_volume"
    /\ ret = PendingRet
    /\ ret' = Return(calculate_average_volume(call.children_melody))
    /\ UNCHANGED <<pipeVars, prev, call>>

SpecVolume == InitVolume /\ [][CallVolume]_vars

(* SpecNormalize: normalize_melody, on frame values of two decimals *)

\* bin * 100 + loudness: 0.0, 0.99, 1.25, 2.75, 3.1 and 4.0
MelodyVals == {0, 99, 125, 275, 310, 400}

InitNormalize ==
    /\ Idle
    /\ prev = NoCall
    /\ \E m \in SeqsUpTo(MelodyVals, MaxFrames) :
         call = [fn |-> "normalize_melody", melody |-> m]
    /\ ret = PendingRet

CallNormalize ==
    /\ call.fn = "normalize_melody"
    /\ ret = PendingRet
    /\ ret' = Return(normalize_melody(call.melody))
    /\ UNCHANGED <<pipeVars, prev, call>>

SpecNormalize == InitNormalize /\ [][CallNormalize]_vars

(* SpecNotes: extract_notes, on a melody and a threshold *)

MaxMelody == 5

\* frame values 1.0, 1.3, 2.0 and 3.0: two loudnesses of bin 1, bins 2 and 3
NoteFrameVals == {100, 130, 200, 300}

\* min_per 1, 1.5 and 2
NotePers == {[num |-> 1, den |-> 1], [num |-> 3, den |-> 2], [num |-> 2, den |-> 1]}

InitNotes ==
    /\ Idle
    /\ prev = NoCall
    /\ \E m \in SeqsUpTo(NoteFrameVals, MaxMelody), p \in NotePers, f \in BOOLEAN :
         call = [fn |-> "extract_notes", melody |-> m, min_per |-> p, failed |-> f]
    /\ ret = PendingRet

\* the three lists the function returns
CallNotes ==
    /\ call.fn = "extract_notes"
    /\ ret = PendingRet
    /\ LET r == extract_notes(call.melody, call.min_per, call.failed)
       IN  ret' = Return(<<r.all_notes, r.freq, r.lengths>>)
    /\ UNCHANGED <<pipeVars, prev, call>>

SpecNotes == InitNotes /\ [][CallNotes]_vars

(* SpecInsertion: compare_melody_sequences, on a reference of 4 or more   *)
(* note events and a candidate that is the reference with one more event  *)

MaxRef == 5

InsertionVals == {101, 202, 303}

InitInsertion ==
    \E n \in 4..MaxRef :
      \E et \in [1..n -> InsertionVals], k \in 0..(n - 4), x \in InsertionVals :
        /\ x # et[k + 1]
        /\ LET ec == Insert(et, k, x)
           IN  Stage("align", NoFault, <<>>, <<>>, et, ec,
                     Bins(et), Bins(ec), Lengths(et), Lengths(ec))

SpecInsertion == InitInsertion /\ [][Align]_vars

(* SpecBucketRun: process_characteristics step by step.  The frame of the *)
(* call is in `call`: its arguments x0 and time, the locals x, y and      *)
(* count_of_values, and the position `at`.                                *)

\* durations in hundredths of a second, negative ones too: -4, -1, 0, 1 and
\* 4 frames to a bucket
RunTimes == {0 - 100, 0 - 25, 0, 25, 100}

\* y is recorded up to this length; a longer y is not told from one of this
\* length, and from there on an append may exhaust the memory
OutCap == MaxBits + 1

InitBucketRun ==
    /\ Idle
    /\ prev = NoCall
    /\ \E x \in SeqsUpTo({0, 1}, MaxBits), time \in RunTimes :
         call = [fn |-> "process_characteristics", x0 |-> x, time |-> time,
                 x |-> x, y |-> <<>>, count_of_values |-> 0, at |-> "enter"]
    /\ ret = PendingRet

\* lines 334-341: the count, and the return of [] when it is 0
BucketEnter ==
    /\ call.fn = "process_characteristics"
    /\ call.at = "enter"
    /\ LET count_of_values == BucketFrameCount(call.time)
       IN  IF count_of_values = 0
           THEN /\ call' = [call EXCEPT !.at = "done"]
                /\ ret' = Return(call.y)
           ELSE /\ call' = [call EXCEPT !.count_of_values = count_of_values,
                                        !.at = "while"]
                /\ ret' = ret
    /\ UNCHANGED <<pipeVars, prev>>

\* line 343: the loop test
BucketTest ==
    /\ call.fn = "process_characteristics"
    /\ call.at = "while"
    /\ call' = [call EXCEPT !.at = IF Len(call.x) >= call.count_of_values
                                   THEN "body" ELSE "rest"]
    /\ UNCHANGED <<pipeVars, prev, ret>>

\* lines 344-346: one bucket; beyond OutCap the append either succeeds or
\* raises MemoryError, which the except clause turns into []
BucketBody ==
    /\ call.fn = "process_characteristics"
    /\ call.at = "body"
    /\ LET n    == call.count_of_values
           vote == VoteOver(SliceTo(call.x, n), n)
       IN  \/ /\ call' = [call EXCEPT
                            !.y = IF Len(@) < OutCap THEN Append(@, vote) ELSE @,
                            !.x = SliceFrom(@, n),
                            !.at = "while"]
              /\ ret' = ret
           \/ /\ Len(call.y) >= OutCap
              /\ call' = [call EXCEPT !.at = "done"]
              /\ ret' = Return(<<>>)
    /\ UNCHANGED <<pipeVars, prev>>

\* lines 348-355: the remainder, and the return
BucketRest ==
    /\ call.fn = "process_characteristics"
    /\ call.at = "rest"
    /\ LET y == IF call.x # <<>>
                THEN Append(call.y, VoteOver(call.x, Len(call.x)))
                ELSE call.y
       IN  /\ call' = [call EXCEPT !.y = y, !.at = "done"]
           /\ ret' = Return(y)
    /\ UNCHANGED <<pipeVars, prev>>

NextBucketRun == BucketEnter \/ BucketTest \/ BucketBody \/ BucketRest

\* the call runs on one thread, which takes its next step as long as it has one
SpecBucketRun == InitBucketRun /\ [][NextBucketRun]_vars /\ WF_vars(NextBucketRun)

(* SpecSegments: synchronize_melodies, compare_melody_sequences and compare *)
(* in a row, as compare_melodies calls them, on melodies long enough to    *)
(* hold several notes.  A melody is given by its runs: run k is so many    *)
(* frames of one pitch, and the pitch changes from run to run.             *)

MaxRuns == 5

\* the reference is played in short notes, the candidate holds its notes
ShortRuns == {1, 2}

HeldRuns == {1, 8}

\* durations of the recordings, in hundredths of a second
SegmentTimes == {300, 1000}

RunMelody(runs) ==
    Flatten([k \in 1..Len(runs) |->
                Repeat(IF k % 2 = 1 THEN 130 ELSE 0, runs[k])])

\* both files are decoded: the locals of compare_melodies before line 46
InitSegments ==
    \E rt \in SeqsUpTo(ShortRuns, MaxRuns) \ {<<>>},
       rc \in SeqsUpTo(HeldRuns, MaxRuns) \ {<<>>},
       tt \in SegmentTimes, tc \in SegmentTimes :
      /\ pc = "sync"
      /\ file1 = Audio(RunMelody(rt), tt)
      /\ file2 = Audio(RunMelody(rc), tc)
      /\ fault = NoFault
      /\ teacher_melody = RunMelody(rt)
      /\ children_melody = RunMelody(rc)
      /\ min_per_t = MinPer(Len(RunMelody(rt)), tt)
      /\ min_per_c = MinPer(Len(RunMelody(rc)), tc)
      /\ all_t = <<>>
      /\ all_c = <<>>
      /\ freq_t = <<>>
      /\ freq_c = <<>>
      /\ t_m = <<>>
      /\ c_m = <<>>
      /\ counter = 0
      /\ time_c = 0
      /\ result = Pending
      /\ ran = <<"extract_t", "extract_c">>
      /\ prev = NoCall
      /\ call = NoCall
      /\ ret = NoRet

SpecSegments == InitSegments /\ [][Synchronize \/ Align \/ Compare]_vars

(* SpecSelf: the same stages on a recording compared with itself *)

\* durations in hundredths of a second: min_per is 1/2, 1/4 and 1/12 of the
\* number of frames
SelfTimes == {50, 100, 300}

InitSelf ==
    \E m \in SeqsUpTo(NoteFrameVals, MaxMelody) \ {<<>>}, t \in SelfTimes :
      /\ pc = "sync"
      /\ file1 = Audio(m, t)
      /\ file2 = Audio(m, t)
      /\ fault = NoFault
      /\ teacher_melody = m
      /\ children_melody = m
      /\ min_per_t = MinPer(Len(m), t)
      /\ min_per_c = MinPer(Len(m), t)
      /\ all_t = <<>>
      /\ all_c = <<>>
      /\ freq_t = <<>>
      /\ freq_c = <<>>
      /\ t_m = <<>>
      /\ c_m = <<>>
      /\ counter = 0
      /\ time_c = 0
      /\ result = Pending
      /\ ran = <<"extract_t", "extract_c">>
      /\ prev = NoCall
      /\ call = NoCall
      /\ ret = NoRet

SpecSelf == InitSelf /\ [][Synchronize \/ Align \/ Compare]_vars

(* SpecHeldNotes: extract_notes on a held note followed by short ones.  A *)
(* melody is given by its runs: len frames of pitch bin, run after run.    *)

MaxShort == 3

\* a note held for 100, 101 or 102 frames
HeldNotes == [bin : {1, 2}, len : {100, 101, 102}]

ShortNotes == [bin : {1, 2, 3}, len : {1, 2}]

HeldMelody(runs) ==
    Flatten([k \in 1..Len(runs) |-> Repeat(runs[k].bin * 100, runs[k].len)])

InitHeldNotes ==
    /\ Idle
    /\ prev = NoCall
    /\ \E held \in HeldNotes, runs \in SeqsUpTo(ShortNotes, MaxShort) :
         call = [fn |-> "extract_notes", melody |-> HeldMelody(<<held>> \o runs),
                 min_per |-> [num |-> 1, den |-> 1], failed |-> FALSE]
    /\ ret = PendingRet

SpecHeldNotes == InitHeldNotes /\ [][CallNotes]_vars

----------------------------------------------------------------------------
(* Claims about compare_melodies *)

Entered(stage) == \E k \in 1..Len(ran) : ran[k] = stage

UsableBytes(f) == f.kind \in {"audio", "undecodable"}

\* C1: whichever of extraction, segmentation and metric computation fails
\* inside a call, compare_melodies returns None, never a result tuple.
C1_StageFailureGivesNone ==
    (/\ pc = "done"
     /\ fault.stage \in {"extract_t", "extract_c", "sync", "compare"}
     /\ Entered(fault.stage))
    => result = None

\* C2: when file1 or file2 is not bytes or is empty, the call returns None
\* and no extraction, segmentation, alignment or metric stage is run.
C2_InvalidInputGivesNone ==
    (pc # "idle" /\ (~UsableBytes(file1) \/ ~UsableBytes(file2)))
    => (pc = "done" /\ result = None /\ ran = <<>>)

C2_Witness ==
    /\ pc = "done"
    /\ file1 = NotBytes
    /\ file2.kind = "audio"
    /\ result = None
    /\ ran = <<>>

\* C3: whatever the arguments and wherever a stage raises, the call ends by
\* returning None or a result tuple; no exception leaves compare_melodies.
C3_NeverRaises ==
    /\ pc \in {"idle", "extract_t", "extract_c", "sync", "align", "compare", "done"}
    /\ pc = "done" => result.kind \in {"None", "tuple"}
    /\ pc # "done" => result = Pending

C3_Witness ==
    /\ pc = "done"
    /\ fault = [stage |-> "align", at |-> "prologue"]
    /\ Entered("align")
    /\ result = None

\* C8: the bucket frame count compare_melodies buckets with is
\* round(d * TIME_FACTOR), d the candidate's trimmed duration.
C8_BucketCountFromCandidateDuration ==
    (pc = "done" /\ Entered("compare"))
    => BucketFrameCount(time_c) = BucketFrameCount(file2.time)

----------------------------------------------------------------------------
(* Claims about the stages and helpers *)

Compared == pc = "done" /\ Entered("compare") /\ fault = NoFault

\* C4: the three bucket sequences of a comparison of aligned arrays
\* (durations >= 1) have the same length.
C4_BucketsSameLength ==
    (Compared /\ result.kind = "tuple")
    => (/\ Len(result.rhythm) = Len(result.height)
        /\ Len(result.height) = Len(result.volume))

Aligned == pc = "compare" /\ Entered("align") /\ fault = NoFault

\* C5: after compare_melody_sequences returns, the two frame arrays have the
\* same length, and so have the two bin arrays and the two duration arrays.
C5_AlignedLengthsEqual ==
    Aligned => (/\ Len(teacher_melody) = Len(children_melody)
                /\ Len(freq_t) = Len(freq_c)
                /\ Len(t_m) = Len(c_m))

C5_Witness ==
    /\ Aligned
    /\ Len(all_t) # Len(all_c)
    /\ \E k \in 1..Len(freq_c) : freq_c[k] = GAP_BIN
    /\ Len(freq_t) > Len(all_t)
    /\ Len(teacher_melody) = 2

LoudnessReturned == call.fn = "calculate_loudness" /\ ret # PendingRet

\* C6: calculate_loudness on the same durations and the same frames for
\* reference and candidate returns zeros only, one per frame of the notes.
C6_IdenticalNeverFlagged ==
    (/\ LoudnessReturned
     /\ call.t_m = call.c_m
     /\ call.teacher_melody = call.children_melody)
    => ret = Return(Repeat(0, Sum(call.t_m)))

\* C7: in calculate_loudness the flags of a note whose reference frames sum
\* to zero are all 0.
C7_ZeroReferenceNeverFlagged ==
    LoudnessReturned =>
      \A i \in 1..Len(call.t_m) :
        LET from_t == Sum(Slice(call.t_m, 0, i - 1))
            from_c == Sum(Slice(call.c_m, 0, i - 1))
        IN  Sum(Slice(call.teacher_melody, from_t, from_t + call.t_m[i])) = 0
            => /\ ret.exc = "none"
               /\ \A k \in (from_c + 1)..(from_c + call.c_m[i]) : ret.val[k] = 0

IndicatorReturned == call.fn = "calculate_integral_indicator" /\ ret # PendingRet

\* C9: calculate_integral_indicator returns a value in [0, 1] (0..100
\* hundredths) for every sequence of 0/1 bits, the empty one included, and so
\* the indicator of every comparison lies in [0, 1].
C9_IndicatorInUnitInterval ==
    /\ IndicatorReturned => (ret.exc = "none" /\ ret.val \in 0..100)
    /\ (pc = "done" /\ result.kind = "tuple") => result.ii \in 0..100

C9_Witness ==
    /\ IndicatorReturned
    /\ call.total_errors = <<>>
    /\ ret = Return(100)

RhythmReturned == call.fn = "calculate_rhythm" /\ ret # PendingRet

\* C11: calculate_rhythm returns, note after note in order, c_m[i] zeros
\* when |t_m[i] - c_m[i]| / t_m[i] <= 25%, and otherwise min(t_m[i], c_m[i])
\* zeros followed by |t_m[i] - c_m[i]| ones; equal duration arrays give
\* zeros only.
C11_RhythmFlags ==
    RhythmReturned =>
      LET t == call.t_m
          c == call.c_m
          note(i) == IF 4 * Abs(t[i] - c[i]) <= t[i]
                     THEN Repeat(0, c[i])
                     ELSE Repeat(0, Min(t[i], c[i])) \o Repeat(1, Abs(t[i] - c[i]))
      IN  /\ ret = Return(Flatten([i \in 1..Len(t) |-> note(i)]))
          /\ t = c => ret.val = Repeat(0, Sum(c))

C11_Witness ==
    /\ RhythmReturned
    /\ call.t_m = <<4, 1>>
    /\ call.c_m = <<3, 4>>
    /\ ret = Return(<<0, 0, 0, 0, 1, 1, 1>>)

FrequencyReturned == call.fn = "calculate_frequency" /\ ret # PendingRet

\* C12: calculate_frequency returns, note after note in order, c_m[i] zeros
\* when freq_t[i] = freq_c[i] and c_m[i] ones otherwise; equal bin arrays
\* give sum(c_m) zeros.
C12_FrequencyFlags ==
    FrequencyReturned =>
      LET ft == call.freq_t
          fc == call.freq_c
          cm == call.c_m
          note(i) == IF ft[i] = fc[i] THEN Repeat(0, cm[i]) ELSE Repeat(1, cm[i])
      IN  /\ ret = Return(Flatten([i \in 1..Len(ft) |-> note(i)]))
          /\ ft = fc => (/\ Len(ret.val) = Sum(cm)
                         /\ \A k \in 1..Len(ret.val) : ret.val[k] = 0)

C12_Witness ==
    /\ FrequencyReturned
    /\ call.freq_t = <<1, 2>>
    /\ call.freq_c = <<1, 1>>
    /\ call.c_m = <<1, 3>>
    /\ ret = Return(<<0, 1, 1, 1>>)

\* C13: the indicator compare returns is 1 - round(mean(bits), 2), in
\* hundredths 100 - round(100 * mean(bits)), where bits is the rhythm flags
\* followed by the frequency flags of the compared arrays; the loudness
\* flags are not among them.
C13_IndicatorFromRhythmAndFrequency ==
    Compared =>
      LET bits == calculate_rhythm(t_m, c_m).val
                    \o calculate_frequency(freq_t, freq_c, c_m).val
      IN  bits # <<>> =>
            /\ result.kind = "tuple"
            /\ result.ii = 100 - RoundHalfEven(100 * Sum(bits), Len(bits))

\* 4 frequency ones among 18 bits give 0.78 although the loudness of the
\* second note is flagged
C13_Witness ==
    /\ Compared
    /\ t_m = <<4, 5>>
    /\ c_m = <<4, 5>>
    /\ freq_t = <<1, 1>>
    /\ freq_c = <<2, 1>>
    /\ result.volume = <<0, 1>>
    /\ result.ii = 78

BucketsReturned == call.fn = "process_characteristics" /\ ret # PendingRet

\* C14: with n = round(time * TIME_FACTOR) >= 1, process_characteristics
\* returns one entry for each of the ceil(len(x) / n) consecutive chunks of n
\* flags (the last one may be shorter), 1 when more than half of the chunk's
\* flags are 1 and 0 otherwise (so 0 at exactly half); with n = 0 it returns
\* the empty list.
C14_BucketVotes ==
    BucketsReturned =>
      LET x == call.x
          n == BucketFrameCount(call.time)
          chunk(j) == Slice(x, (j - 1) * n, j * n)
      IN  IF n = 0
          THEN ret = Return(<<>>)
          ELSE /\ ret.exc = "none"
               /\ Len(ret.val) = (Len(x) + n - 1) \div n
               /\ \A j \in 1..Len(ret.val) :
                     /\ chunk(j) # <<>>
                     /\ ret.val[j] = 1 <=> 2 * Sum(chunk(j)) > Len(chunk(j))
                     /\ ret.val[j] \in {0, 1}

C14_Witness ==
    /\ BucketsReturned
    /\ call.x = <<1, 0, 1, 0, 1>>
    /\ call.time = 100
    /\ ret = Return(<<0, 1>>)

ExtendReturned == call.fn = "extend_to_max_length" /\ ret # PendingRet

\* after is before with fills appended on the right
PaddedWith(after, before, fill) ==
    /\ Len(after) >= Len(before)
    /\ Slice(after, 0, Len(before)) = before
    /\ \A k \in (Len(before) + 1)..Len(after) : after[k] = fill

\* C15: extend_to_max_length(a, b, fill) returns two lists of length
\* max(len(a), len(b)), a and b with fill appended on the right, the longer
\* of the two unchanged; and compare_melody_sequences pads the frame arrays
\* with 0.0, the bin arrays with 0 and the duration arrays with 1.
C15_RightPadded ==
    /\ [](ExtendReturned =>
            LET a == call.list1
                b == call.list2
                n == Max(Len(a), Len(b))
            IN  /\ ret.exc = "none"
                /\ Len(ret.val[1]) = n
                /\ Len(ret.val[2]) = n
                /\ PaddedWith(ret.val[1], a, call.fill_value)
                /\ PaddedWith(ret.val[2], b, call.fill_value)
                /\ Len(a) >= Len(b) => ret.val[1] = a
                /\ Len(b) >= Len(a) => ret.val[2] = b)
    /\ [][(pc = "align" /\ pc' = "compare" /\ fault = NoFault) =>
            LET ex == FindGaps(all_t, all_c)
            IN  /\ Len(teacher_melody') = Max(Len(teacher_melody), Len(children_melody))
                /\ Len(children_melody') = Len(teacher_melody')
                /\ Len(freq_c') = Len(freq_t')
                /\ Len(c_m') = Len(t_m')
                /\ PaddedWith(teacher_melody', teacher_melody, 0)
                /\ PaddedWith(children_melody', children_melody, 0)
                /\ PaddedWith(freq_t', InsertAll(freq_t, ex.exec_c, GAP_BIN), 0)
                /\ PaddedWith(freq_c', InsertAll(freq_c, ex.exec_t, GAP_BIN), 0)
                /\ PaddedWith(t_m', InsertAll(t_m, ex.exec_c, GAP_DURATION), 1)
                /\ PaddedWith(c_m', InsertAll(c_m, ex.exec_t, GAP_DURATION), 1)]_vars

C15_Witness ==
    /\ ExtendReturned
    /\ call.list1 = <<1, 2>>
    /\ call.list2 = <<1, 2, 2, 1>>
    /\ call.fill_value = 0
    /\ ret = Return(<< <<1, 2, 0, 0>>, <<1, 2, 2, 1>> >>)

VolumeReturned == call.fn = "calculate_average_volume" /\ ret # PendingRet

\* C16: calculate_average_volume maps a list m of non-negative integers to
\* the list of round(m[i] / max(m), 2) when max(m) is not 0 and to the values
\* themselves when it is 0; the result is as long as m and its elements are
\* in [0, 1] (0..100 hundredths).
C16_VolumeFractions ==
    VolumeReturned =>
      LET m == call.children_melody
      IN  /\ ret.exc = "none"
          /\ Len(ret.val) = Len(m)
          /\ \A i \in 1..Len(m) :
                /\ ret.val[i] \in 0..100
                /\ MaxOf(m) # 0 => ret.val[i] = RoundHalfEven(100 * m[i], MaxOf(m))
                /\ MaxOf(m) = 0 => ret.val[i] = 100 * m[i]

C16_Witness ==
    /\ VolumeReturned
    /\ call.children_melody = <<25, 50, 1>>
    /\ ret = Return(<<50, 100, 2>>)

NormalizeReturned == call.fn = "normalize_melody" /\ ret # PendingRet

\* C17: normalize_melody maps each value of two decimals to its fractional
\* part in hundredths, an integer in 0..99, without the bin; the result is as
\* long as the melody.
C17_FractionInHundredths ==
    NormalizeReturned =>
      LET m == call.melody
      IN  /\ ret.exc = "none"
          /\ Len(ret.val) = Len(m)
          /\ \A i \in 1..Len(m) :
                /\ ret.val[i] \in 0..99
                /\ m[i] = 100 * (m[i] \div 100) + ret.val[i]

C17_Witness ==
    /\ NormalizeReturned
    /\ call.melody = <<125, 275, 310>>
    /\ ret = Return(<<25, 75, 10>>)

----------------------------------------------------------------------------
(* Claims about extract_notes *)

NotesReturned == call.fn = "extract_notes" /\ ret # PendingRet /\ ~call.failed

\* the loop of extract_notes, except that a run too short for a note leaves
\* nothing behind: the counter starts again at the next run
RECURSIVE DiscardingLoop(_, _, _, _)
DiscardingLoop(melody, min_per, i, st) ==
    IF i >= Len(melody) - 1 THEN st
    ELSE LET here == melody[i + 1] \div 100
             next == melody[i + 2] \div 100
         IN  IF here = next
             THEN DiscardingLoop(melody, min_per, i + 1,
                                 [st EXCEPT !.counter = @ + 1])
             ELSE IF AtLeast(st.counter, min_per)
             THEN DiscardingLoop(melody, min_per, i + 1,
                                 [counter |-> 0,
                                  all_notes |-> Append(st.all_notes, here * 100 + st.counter),
                                  freq |-> Append(st.freq, here),
                                  lengths |-> Append(st.lengths, st.counter)])
             ELSE DiscardingLoop(melody, min_per, i + 1, [st EXCEPT !.counter = 0])

\* C18: a run that ends below the threshold is discarded entirely: the notes
\* extract_notes returns are those of a scan that counts every run from
\* zero, so no frame of a discarded run is in a later note's duration.
C18_ShortRunsDiscarded ==
    NotesReturned =>
      LET r == DiscardingLoop(call.melody, call.min_per, 0,
                              [counter |-> 0, all_notes |-> <<>>, freq |-> <<>>,
                               lengths |-> <<>>])
      IN  ret = Return(<<r.all_notes, r.freq, r.lengths>>)

\* the runs of a melody: maximal stretches of frames with one integer part
RECURSIVE Runs(_)
Runs(m) ==
    IF m = <<>> THEN <<>>
    ELSE LET rest == Runs(Tail(m))
             b    == Head(m) \div 100
         IN  IF rest # <<>> /\ rest[1].bin = b
             THEN <<[bin |-> b, frames |-> rest[1].frames + 1]>> \o Tail(rest)
             ELSE <<[bin |-> b, frames |-> 1]>> \o rest

\* s is t with some elements left out
RECURSIVE IsSubseq(_, _)
IsSubseq(s, t) ==
    IF s = <<>> THEN TRUE
    ELSE IF t = <<>> THEN FALSE
    ELSE IF Head(s) = Head(t) THEN IsSubseq(Tail(s), Tail(t))
    ELSE IsSubseq(s, Tail(t))

\* C19: every note extract_notes returns is a run of the melody, in order:
\* its bin is the integer part of the run's frames, its duration the number
\* of frames of the run, and its value bin + duration / 100.
C19_NoteIsItsRun ==
    NotesReturned =>
      LET all_notes == ret.val[1]
          freq      == ret.val[2]
          lengths   == ret.val[3]
      IN  /\ Len(freq) = Len(all_notes)
          /\ Len(lengths) = Len(all_notes)
          /\ \A k \in 1..Len(all_notes) : all_notes[k] = freq[k] * 100 + lengths[k]
          /\ IsSubseq([k \in 1..Len(all_notes) |->
                          [bin |-> freq[k], frames |-> lengths[k]]],
                      Runs(call.melody))

\* C20: the final run of the melody gives no note: there are fewer notes than
\* runs, and a melody whose last two frames have the same integer part gives
\* the three lists of the melody without its last frame, so frames appended
\* to the final run change nothing.
C20_FinalRunNotEvaluated ==
    NotesReturned =>
      LET m == call.melody
          n == Len(m)
      IN  /\ m # <<>> => Len(ret.val[1]) < Len(Runs(m))
          /\ (n >= 2 /\ m[n] \div 100 = m[n - 1] \div 100) =>
                LET r == extract_notes(Slice(m, 0, n - 1), call.min_per, FALSE)
                IN  ret = Return(<<r.all_notes, r.freq, r.lengths>>)

C20_Witness ==
    /\ NotesReturned
    /\ call.melody = <<100, 130, 200, 200, 200>>
    /\ call.min_per = [num |-> 1, den |-> 1]
    /\ ret = Return(<< <<101>>, <<1>>, <<1>> >>)

----------------------------------------------------------------------------
(* Claims about compare_melody_sequences *)

\* the Python indices of the recorded gaps
GapIndices(gaps) == {gaps[k] \div 100 : k \in 1..Len(gaps)}

\* the values differ at i and the candidate's i+1..i+2 are the reference's i..i+1
ExtraInCandidate(i) ==
    /\ all_c[i + 1] # all_t[i + 1]
    /\ Slice(all_c, i + 1, i + 3) = Slice(all_t, i, i + 2)

\* the values differ at i and the reference's i+1..i+2 are the candidate's i..i+1
ExtraInReference(i) ==
    /\ all_c[i + 1] # all_t[i + 1]
    /\ Slice(all_t, i + 1, i + 3) = Slice(all_c, i, i + 2)

\* the indices the scan visits
ScanRange == 0..(Min(Len(all_t), Len(all_c)) - 4)

\* what holds of the recorded gaps whichever way a double match is decided
GapsWellFormed(ex) ==
    /\ GapIndices(ex.exec_c) \subseteq ScanRange
    /\ GapIndices(ex.exec_t) \subseteq ScanRange
    /\ Cardinality(GapIndices(ex.exec_c)) = Len(ex.exec_c)
    /\ Cardinality(GapIndices(ex.exec_t)) = Len(ex.exec_t)
    /\ Len(all_t) = Len(all_c) => (ex.exec_c = <<>> /\ ex.exec_t = <<>>)

\* C21 as claimed: between sequences of different lengths a reference-side
\* gap is recorded at i exactly when the candidate has an extra event at i,
\* a candidate-side gap at i exactly when the reference has one, for every i
\* in 0..min - 4; no gap at another index, none between equal lengths.
C21_GapsExactlyWhereMatched ==
    Aligned =>
      LET ex == FindGaps(all_t, all_c)
      IN  /\ GapsWellFormed(ex)
          /\ Len(all_t) # Len(all_c) =>
                \A i \in ScanRange :
                  /\ i \in GapIndices(ex.exec_c) <=> ExtraInCandidate(i)
                  /\ i \in GapIndices(ex.exec_t) <=> ExtraInReference(i)

\* C21 amended: as claimed, except that a candidate-side gap is recorded at i
\* exactly when the reference has an extra event at i and the candidate has
\* none there: where both tests match, only the reference-side gap is
\* recorded.
C21_GapsFirstMatchOnly ==
    Aligned =>
      LET ex == FindGaps(all_t, all_c)
      IN  /\ GapsWellFormed(ex)
          /\ Len(all_t) # Len(all_c) =>
                \A i \in ScanRange :
                  /\ i \in GapIndices(ex.exec_c) <=> ExtraInCandidate(i)
                  /\ i \in GapIndices(ex.exec_t) <=>
                        (ExtraInReference(i) /\ ~ExtraInCandidate(i))

\* both tests match at index 0, and only the reference arrays get a filler
C21_Witness ==
    /\ Aligned
    /\ Len(all_t) # Len(all_c)
    /\ 0 \in ScanRange
    /\ ExtraInCandidate(0)
    /\ ExtraInReference(0)
    /\ freq_t[1] = GAP_BIN
    /\ freq_c[1] # GAP_BIN

\* the candidate events are the reference events with one more at index k,
\* different from the reference event there
OneExtraAt(k) ==
    /\ Len(all_c) = Len(all_t) + 1
    /\ all_c[k + 1] # all_t[k + 1]
    /\ all_c = Insert(all_t, k, all_c[k + 1])

\* C22: when the candidate events are the reference events with one more at
\* index k <= min length - 4, compare_melody_sequences puts one filler (bin 6,
\* duration 1) into the reference bin and duration arrays, at index k, and
\* none into the candidate's, so the bins agree at every index but k.
C22_OneFillerForOneExtraNote ==
    Aligned =>
      \A k \in 0..(Len(all_t) - 4) :
        OneExtraAt(k) =>
          /\ freq_t = Insert(Bins(all_t), k, GAP_BIN)
          /\ t_m = Insert(Lengths(all_t), k, GAP_DURATION)
          /\ freq_c = Bins(all_c)
          /\ c_m = Lengths(all_c)
          /\ \A j \in 1..Len(freq_c) : j # k + 1 => freq_t[j] = freq_c[j]

\* C23: when compare_melody_sequences fails inside its try block (in the gap
\* scan, in the insertions or in the padding), the six arrays it returns are
\* the arrays it was called with, without filler and without padding.
C23_FailedAlignmentChangesNothing ==
    [][(pc = "align" /\ pc' = "compare" /\ fault.stage = "align")
         => UNCHANGED <<teacher_melody, children_melody, freq_t, freq_c, t_m, c_m>>]_vars

----------------------------------------------------------------------------
(* Claims about the order of the stages *)

StageOrder == <<"extract_t", "extract_c", "sync", "align", "compare">>

\* extraction from f gives no melody: the bytes do not decode, or the
\* extraction raises
ExtractionFails(f, stage) == f.kind # "audio" \/ FaultAt(stage) # "none"

\* C24: the stages of a call run in the order reference extraction, candidate
\* extraction, segmentation, alignment, metrics, each at most once; the
\* candidate is extracted only after the reference gave a melody; after an
\* extraction that fails no further stage runs and the call returns None.
C24_StagesForwardOnce ==
    /\ Len(ran) <= Len(StageOrder)
    /\ ran = Slice(StageOrder, 0, Len(ran))
    /\ Entered("extract_c") => ~ExtractionFails(file1, "extract_t")
    /\ Entered("sync") => ~ExtractionFails(file2, "extract_c")
    /\ (Entered("extract_t") /\ ExtractionFails(file1, "extract_t"))
         => (ran = <<"extract_t">> /\ pc = "done" /\ result = None)
    /\ (Entered("extract_c") /\ ExtractionFails(file2, "extract_c"))
         => (ran = <<"extract_t", "extract_c">> /\ pc = "done" /\ result = None)

C24_Witness ==
    /\ pc = "done"
    /\ file1.kind = "audio"
    /\ file2 = Undecodable
    /\ ran = <<"extract_t", "extract_c">>
    /\ result = None

----------------------------------------------------------------------------
(* Claims about the metrics of aligned arrays *)

\* C25: in calculate_loudness the c_m[i] flags of a note whose reference
\* frames have a nonzero sum are all 1 when |1 - (c_sum / c_m[i]) / (t_sum /
\* t_m[i])| exceeds 25% and all 0 otherwise, the sums being those of the
\* t_m[i] reference frames and the c_m[i] candidate frames that follow the
\* frames of the notes before i.
C25_LoudnessFlags ==
    LoudnessReturned =>
      \A i \in 1..Len(call.t_m) :
        LET t      == call.t_m[i]
            c      == call.c_m[i]
            from_t == Sum(Slice(call.t_m, 0, i - 1))
            from_c == Sum(Slice(call.c_m, 0, i - 1))
            t_sum  == Sum(Slice(call.teacher_melody, from_t, from_t + t))
            c_sum  == Sum(Slice(call.children_melody, from_c, from_c + c))
            flag   == IF 4 * Abs(c * t_sum - c_sum * t) > Abs(c * t_sum)
                      THEN 1 ELSE 0
        IN  t_sum # 0 =>
              /\ ret.exc = "none"
              /\ Len(ret.val) >= from_c + c
              /\ \A k \in (from_c + 1)..(from_c + c) : ret.val[k] = flag

\* a candidate at 30 is on the tolerance of a reference at 40; a candidate at
\* 40 is beyond that of a reference at 30
C25_Witness ==
    /\ LoudnessReturned
    /\ call.t_m = <<1, 3>>
    /\ call.c_m = <<3, 1>>
    /\ call.teacher_melody = <<40, 30, 30, 30>>
    /\ call.children_melody = <<30, 30, 30, 40>>
    /\ ret = Return(<<0, 0, 0, 1>>)

\* C26: for aligned arrays the loudness flags and the frequency flags both
\* number sum(c_m), so the pitch buckets and the loudness buckets have the
\* same length; the rhythm flags number at least sum(c_m).
C26_FlagCounts ==
    Compared =>
      LET res_loud      == calculate_loudness(t_m, c_m,
                                              normalize_melody(teacher_melody),
                                              normalize_melody(children_melody))
          res_rhythm    == calculate_rhythm(t_m, c_m)
          res_frequency == calculate_frequency(freq_t, freq_c, c_m)
      IN  /\ res_loud.exc = "none"
          /\ res_rhythm.exc = "none"
          /\ res_frequency.exc = "none"
          /\ Len(res_loud.val) = Sum(c_m)
          /\ Len(res_frequency.val) = Sum(c_m)
          /\ Len(res_rhythm.val) >= Sum(c_m)
          /\ result.kind = "tuple"
          /\ Len(result.height) = Len(result.volume)

\* two notes of 5 reference frames and 1 candidate frame: 10 rhythm flags in
\* two buckets, 2 frequency and 2 loudness flags in one
C26_Witness ==
    /\ Compared
    /\ t_m = <<5, 5>>
    /\ c_m = <<1, 1>>
    /\ Len(result.rhythm) = 2
    /\ Len(result.height) = 1
    /\ Len(result.volume) = 1

----------------------------------------------------------------------------
(* Claims about the steps of process_characteristics *)

\* C27: every call of process_characteristics, on any list of 0/1 flags and
\* any duration, the negative ones included, returns.
C27_BucketingTerminates == <>(call.at = "done")

\* the steps give what the function gives, where that is defined
BucketRunAgrees ==
    (call.fn = "process_characteristics" /\ call.at = "done" /\ call.time >= 0)
      => ret = Return(process_characteristics(call.x0, call.time))

----------------------------------------------------------------------------
(* Claims about the segments of whole melodies *)

\* C28: after alignment the reference durations sum to at most the length of
\* the padded reference frames, and the candidate durations to at most the
\* length of the padded candidate frames, so that the loudness cursors stay
\* inside the arrays.
C28_CursorsInsideFrames ==
    (pc = "compare" /\ fault = NoFault /\ Entered("sync") /\ Entered("align"))
      => /\ Sum(t_m) <= Len(teacher_melody)
         /\ Sum(c_m) <= Len(children_melody)

AllZeros(flags) == \A k \in 1..Len(flags) : flags[k] = 0

\* the arrays segmentation gives for the two recordings
Segmented ==
    synchronize_melodies(file1.melody, file2.melody,
                         MinPer(Len(file1.melody), file1.time),
                         MinPer(Len(file2.melody), file2.time), "none")

\* C29: a recording compared with itself (the same frames and the same
\* positive min_per on both sides) gets the same notes on both sides, no
\* filler and no padding from alignment, rhythm and frequency flags that are
\* all 0, and the integral indicator 1.
C29_SelfComparisonIsClean ==
    (file1 = file2 /\ file1.kind = "audio" /\ min_per_t = min_per_c
       /\ min_per_t.num > 0 /\ fault = NoFault)
      => /\ (pc \in {"align", "compare", "done"}
               => /\ all_t = all_c
                  /\ all_t = Segmented.all_t)
         /\ (pc \in {"compare", "done"}
               => /\ teacher_melody = file1.melody
                  /\ children_melody = file2.melody
                  /\ freq_t = Segmented.freq_t /\ freq_c = freq_t
                  /\ t_m = Segmented.t_m /\ c_m = t_m
                  /\ \A k \in 1..Len(freq_t) : freq_t[k] # GAP_BIN
                  /\ AllZeros(calculate_rhythm(t_m, c_m).val)
                  /\ calculate_rhythm(t_m, c_m).exc = "none"
                  /\ AllZeros(calculate_frequency(freq_t, freq_c, c_m).val)
                  /\ calculate_frequency(freq_t, freq_c, c_m).exc = "none")
         /\ (pc = "done"
               => /\ result.kind = "tuple"
                  /\ result.ii = 100
                  /\ AllZeros(result.rhythm)
                  /\ AllZeros(result.height))

\* a recording of two notes, one of them silent, has been compared with itself
C29_Witness ==
    /\ pc = "done"
    /\ file1 = file2
    /\ file1.kind = "audio"
    /\ Len(t_m) = 2
    /\ \E k \in 1..Len(teacher_melody) : teacher_melody[k] % 100 = 0
    /\ result.ii = 100
    /\ result.rhythm # <<>>

----------------------------------------------------------------------------
(* Claims about the value of a note event *)

\* C30: the value bin + duration / 100 of a note event identifies the note:
\* two events of a call with equal values have the same bin and the same
\* duration, and the integer part of an event's value is its bin, whatever
\* duration extract_notes emits.
C30_ValueIdentifiesNote ==
    (call.fn = "extract_notes" /\ ret.exc = "none" /\ ret # PendingRet)
      => LET all_notes == ret.val[1]
             freq      == ret.val[2]
             lengths   == ret.val[3]
         IN  /\ \A k \in 1..Len(all_notes) : all_notes[k] \div 100 = freq[k]
             /\ \A k, j \in 1..Len(all_notes) :
                  all_notes[k] = all_notes[j]
                    => (freq[k] = freq[j] /\ lengths[k] = lengths[j])

====
